---------------------------- MODULE Spec2Model ----------------------------
(***************************************************************************)
(* GPS clock (bhall66/GPS-clock): the time-discipline and presentation     *)
(* engine of the sketches.  Five sketches are modelled, selected by the    *)
(* variable `variant` which stays fixed after Init:                        *)
(*   "full"   src/unnamed/part_003          (three screens, pulse gate)    *)
(*   "single" src/GPS_CLOCK_single/...      (one screen, pulse gate)       *)
(*   "plus"   src/GPS_CLOCK_plus/...        (dual screen, interval gate)   *)
(*   "step4"  src/Tutorials/GPS_CLOCK_step4 (pulse counter only)           *)
(*   "step11" src/Tutorials/GPS_CLOCK_step11 (one screen, no lastSync)     *)
(***************************************************************************)
EXTENDS Integers, Sequences, FiniteSets, TLC

VARIABLES
  variant,        \* which sketch is running
  usingPPS,       \* #define USING_PPS
  pc,             \* position of the main loop inside loop()
  sysTime,        \* TimeLib system time, the value now() returns
  envCount,       \* clock advances and touches so far (bounded by MaxEnv)
  rx,             \* UART receive buffer: bytes waiting and the sentence they end
  gps,            \* TinyGPS++ object: decoded time/date fields, validity, age
  pps,            \* volatile byte pps
  ppsRead,        \* value of pps that syncCheck's test read (0 outside syncCheck)
  lastSync,       \* time_t lastSync
  t, oldT,        \* time_t t, oldT
  lt, oldLt,      \* time_t lt, oldLt
  tz,             \* TimeChangeRule *tz ("NULL", "EDT" or "EST")
  use12hrFormat,  \* bool use12hrFormat
  useLocalTime,   \* bool useLocalTime
  screenID,       \* int screenID
  screen,         \* what the display currently shows
  call,           \* a library routine called on its own: arguments and result
  sinceTouch,     \* ms known to have passed since the last dispatched touch (-1: none yet)
  air,            \* the receiver: UTC second in progress, its sentence, the pulse behind pps
  finger,         \* the touch panel: finger down or up, where, polls that saw this press
  ev              \* what the most recent step did (calls issued, values read)

vars == <<variant, usingPPS, pc, sysTime, envCount, rx, gps, pps, ppsRead,
          lastSync, t, oldT, lt, oldLt, tz, use12hrFormat, useLocalTime,
          screenID, screen, call, sinceTouch, air, finger, ev>>

-----------------------------------------------------------------------------
(* Bounds of the model *)

\* the environment advances the clock or touches the display at most this
\* many times in a behaviour
MaxEnv == 2

\* seconds the zone-conversion specification walks from each start instant
ZoneSteps == 4

\* bytes that may be waiting in the UART buffer when feedGPS() is called, the
\* last of them ending a sentence
MaxPending == 2

\* UTC seconds the receiver goes through in the pulse specification
MaxPulses == 2

\* sizes of one clock advance, in seconds, seen between two reads of now()
TickSteps == {1, 99, 3599, 86399}

\* ages (ms) of the decoded time field the model distinguishes, in order
AgeLadder == <<0, 999, 1000, 1001>>

-----------------------------------------------------------------------------
(* Program constants *)

SYNC_INTERVAL == 100
SYNC_MARGINAL == 3600
SYNC_LOST == 86400
FIRST_SCREEN == 1
SHOW_LOCAL_TIME == TRUE
LOCAL_FORMAT_12HR == TRUE
UTC_FORMAT_12HR == FALSE
USE_12HR_FORMAT == TRUE

\* FIRST_SCREEN is the user's preference: "0 = time/locn; 1= dual time;
\* 2= location/elevation/speed"
FirstScreens == {0, FIRST_SCREEN, 2}

Variants == {"full", "single", "plus", "step4", "step11"}
PulseOnly == {"full", "single"}

\* the sketches that keep lastSync
Tracking == {"full", "single", "plus"}

-----------------------------------------------------------------------------
(* TimeLib: seconds since 1970 <-> calendar fields *)

SECS_PER_MIN == 60
SECS_PER_HOUR == 3600
SECS_PER_DAY == 86400

\* delay(300) of checkForTouch()
DEBOUNCE_MS == 300

\* Every instant of the model lies between 1970 and 2037, so the 32-bit
\* time_t arithmetic never wraps and an `int` holds every difference of two
\* instants: unsigned subtraction followed by the conversion to int yields
\* the signed difference.
ToInt(x) == x

\* LEAP_YEAR(Y), Y counted from 1970
LEAP_YEAR(Y) ==
  /\ (1970 + Y) % 4 = 0
  /\ ((1970 + Y) % 100 # 0 \/ (1970 + Y) % 400 = 0)

monthDays == <<31, 28, 31, 30, 31, 30, 31, 31, 30, 31, 30, 31>>

MonthLen(i, Y) == IF i = 2 /\ LEAP_YEAR(Y) THEN 29 ELSE monthDays[i]

YearLen(Y) == IF LEAP_YEAR(Y) THEN 366 ELSE 365

\* makeTime's loop over the years before Y, summed once for the years the
\* model can reach (1970..2037)
RECURSIVE SumYears(_)
SumYears(Y) == IF Y <= 0 THEN 0 ELSE SumYears(Y - 1) + YearLen(Y - 1)

daysBeforeYear == [Y \in 0..68 |-> SumYears(Y)]

DaysBeforeYear(Y) == daysBeforeYear[Y]

\* makeTime's loop over the months before mo, summed once for a leap year
\* (1972) and a common one (1970)
RECURSIVE SumMonths(_, _)
SumMonths(mo, Y) ==
  IF mo <= 1 THEN 0 ELSE SumMonths(mo - 1, Y) + MonthLen(mo - 1, Y)

daysBeforeMonth ==
  [leap \in BOOLEAN |-> [mo \in 0..13 |-> SumMonths(mo, IF leap THEN 2 ELSE 0)]]

DaysBeforeMonth(mo, Y) == daysBeforeMonth[LEAP_YEAR(Y)][mo]

\* makeTime(tm) with tm.Year = Y (offset from 1970)
makeTime(h, m, s, d, mo, Y) ==
  DaysBeforeYear(Y) * SECS_PER_DAY
  + DaysBeforeMonth(mo, Y) * SECS_PER_DAY
  + (d - 1) * SECS_PER_DAY
  + h * SECS_PER_HOUR + m * SECS_PER_MIN + s

\* the year conversion of setTime(hr,min,sec,dy,mnth,yr)
tmYear(yr) == IF yr > 99 THEN yr - 1970 ELSE yr + 30

second(x) == x % 60
minute(x) == (x \div 60) % 60
hour(x) == (x \div 3600) % 24
weekday(x) == (((x \div SECS_PER_DAY) + 4) % 7) + 1

\* breakTime's loop: the first year whose end lies beyond the day count
\* (a year has at most 366 days, so the search starts at days \div 366)
YearOfDays(days) ==
  CHOOSE Y \in (days \div 366)..67 :
     daysBeforeYear[Y] <= days /\ days < daysBeforeYear[Y + 1]

year(x) == 1970 + YearOfDays(x \div SECS_PER_DAY)

DayOfYear(x) == (x \div SECS_PER_DAY) - DaysBeforeYear(year(x) - 1970)

\* breakTime's loop over the months: the first month whose end lies beyond
\* the day of the year
MonthOfDays(days, Y) ==
  CHOOSE mo \in 1..12 :
     DaysBeforeMonth(mo, Y) <= days /\ days < DaysBeforeMonth(mo + 1, Y)

month(x) == MonthOfDays(DayOfYear(x), year(x) - 1970)

day(x) == DayOfYear(x) - DaysBeforeMonth(month(x), year(x) - 1970) + 1

-----------------------------------------------------------------------------
(* Timezone: the rule pair of the sketches and Timezone::toLocal *)

\* TimeChangeRule {abbrev, week, dow, month, hour, offset}; Last=0, Sun=1, Jan=1
EDT == [abbrev |-> "EDT", week |-> 2, dow |-> 1, month |-> 3, hour |-> 2, offset |-> -240]
EST == [abbrev |-> "EST", week |-> 1, dow |-> 1, month |-> 11, hour |-> 2, offset |-> -300]

\* Timezone::toTime_t: the rule's change moment in year yr, as a local instant
toTime_t(r, yr) ==
  LET roll == r.week = 0 /\ r.month + 1 > 12
      m  == IF r.week = 0 THEN (IF roll THEN 1 ELSE r.month + 1) ELSE r.month
      y  == IF roll THEN yr + 1 ELSE yr
      w  == IF r.week = 0 THEN 1 ELSE r.week
      t0 == makeTime(r.hour, 0, 0, 1, m, y - 1970)
      t1 == t0 + (((r.dow - weekday(t0) + 7) % 7) + (w - 1) * 7) * SECS_PER_DAY
  IN  IF r.week = 0 THEN t1 - 7 * SECS_PER_DAY ELSE t1

\* utcIsDST with the two ends of the daylight period swapped in kind: open at
\* the start, closed at the end
utcIsDST_LateEdge(utc, dst, std) ==
  LET dstUTC == toTime_t(dst, year(utc)) - std.offset * SECS_PER_MIN
      stdUTC == toTime_t(std, year(utc)) - dst.offset * SECS_PER_MIN
  IN  utc > dstUTC /\ utc <= stdUTC

\* Timezone::calcTimeChanges followed by Timezone::utcIsDST
utcIsDST(utc, dst, std) ==
  LET dstUTC == toTime_t(dst, year(utc)) - std.offset * SECS_PER_MIN
      stdUTC == toTime_t(std, year(utc)) - dst.offset * SECS_PER_MIN
  IN  IF stdUTC = dstUTC THEN FALSE
      ELSE IF stdUTC > dstUTC THEN utc >= dstUTC /\ utc < stdUTC
      ELSE ~(utc >= stdUTC /\ utc < dstUTC)

\* the rule myTZ.toLocal(utc, &tz) leaves in *tz
activeRule(utc) == IF utcIsDST(utc, EDT, EST) THEN EDT ELSE EST

\* myTZ.toLocal(utc, &tz): the local instant
toLocal(utc) == utc + activeRule(utc).offset * SECS_PER_MIN

\* localTime that looks up the rule before it tests lastSync
localTime_RuleFirst(now, ls, curTz) ==
  IF ls = 0 THEN [lt |-> 0, tz |-> activeRule(now).abbrev]
  ELSE [lt |-> toLocal(now), tz |-> activeRule(now).abbrev]

\* localTime(): [lt, tz] from the clock value `now` it reads
localTime(now, ls, curTz) ==
  IF ls = 0 THEN [lt |-> 0, tz |-> curTz]
  ELSE [lt |-> toLocal(now), tz |-> activeRule(now).abbrev]

-----------------------------------------------------------------------------
(* Grid square: getGridSquare(char *gs, float lat, float lon, const byte len) *)

\* Latitude and longitude are counted in units of 1/57600 degree, a sixteenth
\* of the smallest cell of the locator (0.625 seconds of latitude), and the
\* arithmetic on them is exact.  The coordinates used lie on the limits of
\* the accepted range, one unit beyond them, or well inside a cell, where
\* the float arithmetic of the sketch yields the same digits.
DegreeUnits == 57600

Deg(n) == n * DegreeUnits

\* the acceptance tests with the latitude test lost
accepts_AnyLat(lat, lon, len) ==
  /\ ~((lon + Deg(180) < 0) \/ (lon + Deg(180) > Deg(360)))
  /\ ~(len > 10)

\* lon += 180; lat += 90; the three tests that return early
accepts(lat, lon, len) ==
  /\ ~((lon + Deg(180) < 0) \/ (lon + Deg(180) > Deg(360)))
  /\ ~((lat + Deg(90) < 0) \/ (lat + Deg(90) > Deg(180)))
  /\ ~(len > 10)

\* lon1..lon5 of the shifted longitude: 20 degrees, 2 degrees, 5 minutes,
\* 30 seconds, 1.25 seconds
lonParts(lon) ==
  LET lon1 == lon \div Deg(20)
      r1   == lon - lon1 * Deg(20)
      lon2 == r1 \div Deg(2)
      r2   == r1 - lon2 * Deg(2)
      lon3 == (r2 * 12) \div DegreeUnits
      r3   == r2 - (lon3 * DegreeUnits) \div 12
      lon4 == (r3 * 120) \div DegreeUnits
      r4   == r3 - (lon4 * DegreeUnits) \div 120
      lon5 == (r4 * 2880) \div DegreeUnits
  IN  <<lon1, lon2, lon3, lon4, lon5>>

\* the latitude components computed with the divisions of the longitude
latParts_AsLon(lat) == lonParts(lat)

\* lat1..lat5 of the shifted latitude: 10 degrees, 1 degree, 2.5 minutes,
\* 15 seconds, 0.625 seconds
latParts(lat) ==
  LET lat1 == lat \div Deg(10)
      r1   == lat - lat1 * Deg(10)
      lat2 == r1 \div DegreeUnits
      r2   == r1 - lat2 * DegreeUnits
      lat3 == (r2 * 24) \div DegreeUnits
      r3   == r2 - (lat3 * DegreeUnits) \div 24
      lat4 == (r3 * 240) \div DegreeUnits
      r4   == r3 - (lat4 * DegreeUnits) \div 240
      lat5 == (r4 * 5760) \div DegreeUnits
  IN  <<lat1, lat2, lat3, lat4, lat5>>

\* character codes
ChA == 65
Ch0 == 48
Cha == 97

\* gs[0] .. gs[9] as assigned (gs[i] of the sketch is element i + 1)
gridChars(lat, lon) ==
  LET lo == lonParts(lon + Deg(180))
      la == latParts(lat + Deg(90))
  IN  <<lo[1] + ChA, la[1] + ChA, lo[2] + Ch0, la[2] + Ch0, lo[3] + Cha,
        la[3] + Cha, lo[4] + Ch0, la[4] + Ch0, lo[5] + ChA, la[5] + ChA>>

\* the terminator always written behind the tenth character
terminate_AtTen(gs, len) == [gs EXCEPT ![11] = 0]

\* gs[len] = 0
terminate(gs, len) == [gs EXCEPT ![len + 1] = 0]

\* getGridSquare(gs, lat, lon, len): the buffer it leaves
getGridSquare(gs, lat, lon, len) ==
  IF ~accepts(lat, lon, len) THEN [gs EXCEPT ![1] = 0]
  ELSE LET c == gridChars(lat, lon)
       IN  terminate([i \in 1..Len(gs) |-> IF i <= 10 THEN c[i] ELSE gs[i]], len)

\* the C string a buffer holds: the characters before the first NUL
cstr(gs) ==
  IF \E i \in 1..Len(gs) : gs[i] = 0
  THEN SubSeq(gs, 1, (CHOOSE i \in 1..Len(gs) :
                        gs[i] = 0 /\ \A j \in 1..(i - 1) : gs[j] # 0) - 1)
  ELSE gs

\* char gs[12] of showGridSquare() is not initialised: all NUL, or no NUL
Buffers == { [i \in 1..12 |-> 0], [i \in 1..12 |-> 90] }

GridLats ==
  { Deg(-91), Deg(-90) - 1, Deg(-90), -1952635, 0, 5, 2620805,
    Deg(90) - 5, Deg(90), Deg(90) + 1, Deg(91) }

GridLons ==
  { Deg(-181), Deg(-180), -7044475, 0, 5, 8709125, Deg(180) - 5, Deg(180),
    Deg(181) }

\* const byte len
GridLens == {0, 4, 6, 10, 11, 255}

GridCalls ==
  { [op |-> "getGridSquare?", gs |-> g, lat |-> la, lon |-> lo, len |-> n] :
      g \in Buffers, la \in GridLats, lo \in GridLons, n \in GridLens }

-----------------------------------------------------------------------------
(* The GPS decoder (TinyGPS++): validated fields with their age *)

\* every age above the limit of syncWithGPS is represented by the last entry
OldestAge == AgeLadder[Len(AgeLadder)]

\* a decoder that has committed nothing yet: time invalid (age() reads
\* ULONG_MAX, in the oldest class), date reads 0/0/2000
NoFix == [valid |-> FALSE, age |-> OldestAge,
          hour |-> 0, minute |-> 0, second |-> 0, day |-> 0, month |-> 0, year |-> 2000]

\* sentences the receiver delivers: the last one has its date not yet decoded
GpsSamples ==
  { [hour |-> 12, minute |-> 34, second |-> 9,  day |-> 15, month |-> 6,  year |-> 2021],
    [hour |-> 8,  minute |-> 15, second |-> 29, day |-> 0,  month |-> 0,  year |-> 2000] }

\* an empty UART buffer
NoRx == [left |-> 0,
         smp |-> [hour |-> 0, minute |-> 0, second |-> 0,
                  day |-> 0, month |-> 0, year |-> 2000]]

\* the bytes one call of feedGPS() reads of n waiting: all of them
\* (while (serial.available())), in GPS_CLOCK_step11 at most one
\* (if (Serial1.available()))
feedCount(v, n) == IF v = "step11" /\ n > 1 THEN 1 ELSE n

\* gps.encode(c) completing a sentence: the fields are committed with age 0
Commit(smp) == [valid |-> TRUE, age |-> AgeLadder[1],
                hour |-> smp.hour, minute |-> smp.minute, second |-> smp.second,
                day |-> smp.day, month |-> smp.month, year |-> smp.year]

\* the next age the model distinguishes
NextAge(a) ==
  IF \E i \in 1..(Len(AgeLadder) - 1) : AgeLadder[i] = a
  THEN AgeLadder[(CHOOSE i \in 1..(Len(AgeLadder) - 1) : AgeLadder[i] = a) + 1]
  ELSE a

\* the instant setTime(h,m,s,d,mo,y) builds from the decoded fields
decodedInstant(g) ==
  makeTime(g.hour, g.minute, g.second, g.day, g.month, tmYear(g.year))

-----------------------------------------------------------------------------
(* Touch regions *)

rPM   == [x |-> 240, y |-> 100, w |-> 70,  h |-> 40]
rTZ   == [x |-> 240, y |-> 60,  w |-> 70,  h |-> 40]
rTime == [x |-> 20,  y |-> 50,  w |-> 200, h |-> 140]
rLocn == [x |-> 180, y |-> 165, w |-> 140, h |-> 80]
rPM1  == [x |-> 240, y |-> 70,  w |-> 70,  h |-> 40]
rTZ1  == [x |-> 240, y |-> 30,  w |-> 70,  h |-> 40]

\* the test with the far edges excluded
inRegion_HalfOpen(b, x, y) ==
  IF (x < b.x) \/ (x >= (b.x + b.w)) THEN FALSE
  ELSE IF (y < b.y) \/ (y >= (b.y + b.h)) THEN FALSE
  ELSE TRUE

inRegion(b, x, y) ==
  IF (x < b.x) \/ (x > (b.x + b.w)) THEN FALSE
  ELSE IF (y < b.y) \/ (y > (b.y + b.h)) THEN FALSE
  ELSE TRUE

\* checkForTouch() without the delay
debounce_None(ms) == ms

\* delay(300) at the end of a handled touch: the time since the touch was
\* read, ms before the delay, when checkForTouch() returns.  Every other
\* statement of loop() only adds to it, so sinceTouch is a lower bound.
debounce(ms) == ms + DEBOUNCE_MS

\* touch samples tft.getTouch delivers
\* (inside one region each, outside all, in both rTime and rLocn, and on the
\* line y = 100 that rPM and rTZ share, on the line y = 70 that the rPM and
\* rTZ of GPS_CLOCK_single share)
TouchPoints ==
  { [x |-> 100, y |-> 100], [x |-> 250, y |-> 200], [x |-> 250, y |-> 120],
    [x |-> 250, y |-> 65],  [x |-> 5,   y |-> 5],
    [x |-> 200, y |-> 170], [x |-> 250, y |-> 100], [x |-> 250, y |-> 70] }

-----------------------------------------------------------------------------
(* Synchronizer *)

\* the freshness test of syncWithGPS: TRUE when the decoded time is refused
Stale(v, age) == IF v = "plus" THEN ~(age < 1000) ELSE age > 1000

\* syncWithGPS without the one-second advance
syncWithGPS_NoAdjust(v, g, now, ls) ==
  IF ~g.valid \/ Stale(v, g.age) THEN [sysTime |-> now, lastSync |-> ls, accepted |-> FALSE]
  ELSE [sysTime |-> decodedInstant(g), lastSync |-> decodedInstant(g), accepted |-> TRUE]

\* syncWithGPS that never applies a decode
syncWithGPS_Never(v, g, now, ls) ==
  [sysTime |-> now, lastSync |-> ls, accepted |-> FALSE]

\* syncWithGPS that sets the clock from a decode it refuses as stale
syncWithGPS_StaleSets(v, g, now, ls) ==
  IF ~g.valid THEN [sysTime |-> now, lastSync |-> ls, accepted |-> FALSE]
  ELSE IF Stale(v, g.age)
       THEN [sysTime |-> decodedInstant(g) + 1, lastSync |-> ls, accepted |-> FALSE]
  ELSE [sysTime |-> decodedInstant(g) + 1,
        lastSync |-> IF v = "step11" THEN ls ELSE decodedInstant(g) + 1,
        accepted |-> TRUE]

\* syncWithGPS that advances lastSync but not the clock
syncWithGPS_StampAhead(v, g, now, ls) ==
  IF ~g.valid \/ Stale(v, g.age) THEN [sysTime |-> now, lastSync |-> ls, accepted |-> FALSE]
  ELSE [sysTime |-> decodedInstant(g),
        lastSync |-> IF v = "step11" THEN ls ELSE decodedInstant(g) + 1,
        accepted |-> TRUE]

\* syncWithGPS(): the clock and lastSync it leaves, and whether it set them
syncWithGPS(v, g, now, ls) ==
  IF ~g.valid THEN [sysTime |-> now, lastSync |-> ls, accepted |-> FALSE]
  ELSE IF Stale(v, g.age) THEN [sysTime |-> now, lastSync |-> ls, accepted |-> FALSE]
  ELSE LET set == decodedInstant(g)          \* setTime(h,m,s,d,mo,y)
           adj == set + 1                    \* adjustTime(1)
       IN  [sysTime |-> adj,
            lastSync |-> IF v = "step11" THEN ls ELSE adj,   \* step11 keeps no lastSync
            accepted |-> TRUE]

\* the gate with the negation of USING_PPS lost
SyncGate_NoNegation(p, using) == (p # 0) \/ using

\* syncCheck() of the pulse-gated sketches: the condition that calls syncWithGPS
SyncGate(p, using) == (p # 0) \/ ~using

\* syncCheck() of the interval-gated sketch: the early return on the flag
PulseReturn(p, using) == using /\ p = 0

\* the resync condition with the interval lost
IntervalGate_NoInterval(now, ls) == (ToInt(now - ls) >= 0) \/ (ls = 0)

\* syncCheck() of the interval-gated sketch: the resync condition
IntervalGate(now, ls) == (ToInt(now - ls) >= SYNC_INTERVAL) \/ (ls = 0)

\* the counting handler of the step-4 sketch left in every sketch
ppsHandler_Count(v, p) == (p + 1) % 256

\* the value ppsHandler() leaves in pps
ppsHandler(v, p) == IF v = "step4" THEN (p + 1) % 256 ELSE 1

\* syncCheck that leaves the flag as it is
ppsReset_Keep(p) == p

\* the value syncCheck() leaves in pps
ppsReset(p) == 0

-----------------------------------------------------------------------------
(* StatusClassifier *)

\* the classifier with inclusive thresholds
StatusColor_Inclusive(syncAge) ==
  IF syncAge <= SYNC_MARGINAL THEN "green"
  ELSE IF syncAge <= SYNC_LOST THEN "orange"
  ELSE "red"

StatusColor(syncAge) ==
  IF syncAge < SYNC_MARGINAL THEN "green"
  ELSE IF syncAge < SYNC_LOST THEN "orange"
  ELSE "red"

\* showClockStatus(): the colour it paints, "none" when it returns early
showClockStatus(v, now, ls) ==
  IF v = "single"
  THEN IF ls = 0 THEN "none" ELSE StatusColor(ToInt(now - ls))
  ELSE IF second(now) % 10 # 0 THEN "none" ELSE StatusColor(ToInt(now - ls))

-----------------------------------------------------------------------------
(* State *)

\* what a display routine formats: the instants drawn as HH:MM:SS and as a date
NoDraw == [times |-> {}, dates |-> {}]

Both(a, b) == [times |-> a.times \cup b.times, dates |-> a.dates \cup b.dates]

\* showTimeBasic(h,m,s,x,y): the hour number drawn for hour h when the global
\* use12hrFormat is h12
showTimeBasic(h12, h) ==
  IF h12 THEN (IF h = 0 THEN 12 ELSE IF h > 12 THEN h - 12 ELSE h) ELSE h

\* showTimeD(t, hr12, x, y): the hour number drawn; the routine passes the
\* hour to showTimeBasic and does not use its argument hr12
showTimeD(x, hr12, h12) == showTimeBasic(h12, hour(x))

\* showTime() / showTimeD(): no test of the instant, it is always formatted
showTime(x) == [times |-> {x}, dates |-> {}]

\* showDate() of the single-time screen: part_003 returns if (t<=0),
\* GPS_CLOCK_single has no test
showDate(v, x) ==
  IF v = "single" \/ x > 0 THEN [times |-> {}, dates |-> {x}] ELSE NoDraw

\* showDateD() of part_003 and showDate() of GPS_CLOCK_plus: if (!lastSync) return
showDateD(x, ls) ==
  IF ls # 0 THEN [times |-> {}, dates |-> {x}] ELSE NoDraw

\* showTimeDate(t, oldT): the time always, the date when the day changed
showTimeDate(v, x, old) ==
  Both(showTime(x), IF day(x) # day(old) THEN showDate(v, x) ELSE NoDraw)

\* showTimeDateD(t, oldT, ...) and showTimeDate(t, oldT, ...) of GPS_CLOCK_plus
showTimeDateD(x, old, ls) ==
  Both(showTime(x), IF day(x) # day(old) THEN showDateD(x, ls) ELSE NoDraw)

\* updateTimeScreen()
updateTimeScreen(v, local, utc, loc, oldLoc, old) ==
  IF local THEN showTimeDate(v, loc, oldLoc) ELSE showTimeDate(v, utc, old)

\* updateDualScreen(), and the body of updateDisplay() of GPS_CLOCK_plus
updateDualScreen(utc, loc, oldLoc, old, ls) ==
  Both(showTimeDateD(loc, oldLoc, ls), showTimeDateD(utc, old, ls))

\* what the screen routine of updateDisplay() formats
updateScreen(v, id, local, utc, loc, oldLoc, old, ls) ==
  IF v = "plus" \/ id = 1 THEN updateDualScreen(utc, loc, oldLoc, old, ls)
  ELSE IF id = 2 THEN NoDraw
  ELSE updateTimeScreen(v, local, utc, loc, oldLoc, old)

\* touchedPM() / checkTouchPM(): the time is redrawn in the new format
touchedPM(local, utc, loc) == IF local THEN showTime(loc) ELSE showTime(utc)

\* timeScreen(): the labels, then showDate(t)
timeScreen(utc) == showDate("full", utc)

\* touchedTZ() / checkTouchTZ(): showTimeDate(.,0) in the zone now selected
touchedTZ(v, local, utc, loc) ==
  IF local THEN showTimeDate(v, loc, 0) ELSE showTimeDate(v, utc, 0)

\* op: the step; flag: the pps value that gated a syncCheck; tried: syncWithGPS
\* was called; accepted: it set the clock; resync: it did so with lastSync
\* already set; painted: the colour showClockStatus painted
\* times, dates: the instants the step formatted as a time of day / as a date;
\* at: the coordinates tft.getTouch() returned; from: screenID when it did;
\* unread: bytes that waited when feedGPS() was called and still wait after it;
\* quiet: sinceTouch when tft.getTouch() was called;
\* polls: how many calls of checkForTouch() have dispatched the present press;
\* hours: the hour numbers updateDualScreen() drew, local line then UTC line;
\* acts: the touch handlers whose body ran
NoPoint == [x |-> -1, y |-> -1]

NoEv == [op |-> "none", flag |-> 0, tried |-> FALSE, accepted |-> FALSE,
         resync |-> FALSE, painted |-> "none", times |-> {}, dates |-> {},
         at |-> NoPoint, from |-> 0, unread |-> 0, quiet |-> -1, polls |-> 0,
         hours |-> <<>>, acts |-> {}]

Ev(name) == [NoEv EXCEPT !.op = name]

\* no date on the date line of the single-time screen
NoDate == -1

\* the date line after a routine has formatted the dates of drw: the day (in
\* days since the epoch) drawn, else what the line showed before
dateLine(drw, before) ==
  IF drw.dates = {} THEN before
  ELSE (CHOOSE x \in drw.dates : TRUE) \div SECS_PER_DAY

\* status: the colour of the status indicator; date: the day the date line of
\* the single-time screen of part_003 shows
BlankScreen == [status |-> "none", date |-> NoDate]

\* no routine is being called on its own
NoCall == [op |-> "none"]

\* a receiver whose seconds are not followed
NoAir == [utc |-> 0, sent |-> FALSE, raised |-> 0]

\* nothing touches the panel
NoFinger == [down |-> FALSE, at |-> NoPoint, polls |-> 0]

\* the state when setup() returns
Setup ==
  /\ variant \in Variants
  /\ usingPPS \in (IF variant \in {"step4", "step11"} THEN {TRUE} ELSE BOOLEAN)
  /\ pc = IF variant = "step4" THEN "draw" ELSE "feed"
  /\ sysTime = 0
  /\ rx = NoRx
  /\ gps = NoFix
  /\ pps = 0
  /\ ppsRead = 0
  /\ lastSync = 0
  /\ t = 0 /\ oldT = 0 /\ lt = 0 /\ oldLt = 0
  /\ tz = "NULL"
  /\ use12hrFormat = (IF variant = "single" THEN USE_12HR_FORMAT ELSE LOCAL_FORMAT_12HR)
  /\ useLocalTime = SHOW_LOCAL_TIME
  /\ screenID \in (IF variant = "full" THEN FirstScreens ELSE {0})
  /\ screen = BlankScreen
  /\ call = NoCall
  /\ sinceTouch = -1
  /\ air = NoAir
  /\ finger = NoFinger
  /\ ev = NoEv

Init == Setup /\ envCount = 0

progVars == <<lastSync, t, oldT, lt, oldLt, tz, use12hrFormat, useLocalTime,
              screenID, screen>>

-----------------------------------------------------------------------------
(* Hardware and receiver *)

\* the 1pps interrupt: ppsHandler().  pps is read and written by the main
\* loop only inside syncCheck, so a pulse that arrives anywhere else in the
\* loop is placed right before syncCheck's test; inside syncCheck the handler
\* interleaves with every statement.
PpsHandler ==
  /\ pc \in {"sync", "clear", "gate", "draw"}
  /\ pps' = ppsHandler(variant, pps)
  /\ ev' = Ev("ppsHandler")
  /\ UNCHANGED <<variant, usingPPS, call, sinceTouch, air, finger, rx, pc, sysTime, envCount, gps, ppsRead, progVars>>

\* the clock behind now() advances by d seconds.  The program sees the clock
\* only when it calls now(): in syncCheck/syncWithGPS and in updateDisplay.
\* Between two passes of loop() any time of TickSteps may go by (placed
\* before feedGPS); between syncCheck and updateDisplay of one pass at most a
\* second boundary goes by (an advance inside updateDisplay is MidTicks).
Tick ==
  /\ pc \in {"feed", "display"}
  /\ envCount < MaxEnv
  /\ \E d \in (IF pc = "feed" THEN TickSteps ELSE {1}) :
       /\ sysTime' = sysTime + d
       /\ gps' = IF d > 1 THEN [gps EXCEPT !.age = OldestAge] ELSE gps
  /\ envCount' = envCount + 1
  /\ ev' = NoEv
  /\ UNCHANGED <<variant, usingPPS, call, sinceTouch, air, finger, rx, pc, pps, ppsRead, progVars>>

\* the decoded time field grows older between feedGPS and the age() call
\* of syncWithGPS
GpsAge ==
  /\ pc = "sync"
  /\ gps.valid
  /\ gps.age # OldestAge
  /\ gps' = [gps EXCEPT !.age = NextAge(gps.age)]
  /\ ev' = NoEv
  /\ UNCHANGED <<variant, usingPPS, call, sinceTouch, air, finger, rx, pc, sysTime, envCount, pps, ppsRead,
                 progVars>>

-----------------------------------------------------------------------------
(* Main loop: loop() runs feedGPS, syncCheck, updateDisplay, checkForTouch *)

\* what waits in the UART buffer when feedGPS() is called: what an earlier
\* call left there, else nothing or up to MaxPending bytes ending a sentence
Waiting ==
  IF rx.left > 0 THEN {rx}
  ELSE {NoRx} \cup { [left |-> n, smp |-> smp] : n \in 1..MaxPending, smp \in GpsSamples }

\* feedGPS(): reads waiting bytes into the decoder; the last byte of a
\* sentence commits its fields
FeedGPS ==
  /\ pc = "feed"
  /\ \E w \in Waiting :
       LET n == feedCount(variant, w.left)
       IN  /\ gps' = IF w.left > 0 /\ n = w.left THEN Commit(w.smp) ELSE gps
           /\ rx' = IF n < w.left THEN [w EXCEPT !.left = w.left - n] ELSE NoRx
           /\ ev' = [Ev("feedGPS") EXCEPT !.unread = w.left - n]
  /\ pc' = "sync"
  /\ UNCHANGED <<variant, usingPPS, call, sinceTouch, air, finger, sysTime, envCount, pps, ppsRead, progVars>>

\* syncCheck() of part_003 and GPS_CLOCK_single, first statement:
\*   if (pps||(!USING_PPS)) syncWithGPS();
SyncCheckTest ==
  /\ pc = "sync"
  /\ variant \in PulseOnly
  /\ ppsRead' = pps
  /\ LET go == SyncGate(pps, usingPPS)
         r  == IF go THEN syncWithGPS(variant, gps, sysTime, lastSync)
               ELSE [sysTime |-> sysTime, lastSync |-> lastSync, accepted |-> FALSE]
     IN  /\ sysTime' = r.sysTime
         /\ lastSync' = r.lastSync
         /\ ev' = [Ev("syncCheck") EXCEPT !.flag = pps,
                                          !.tried = go, !.accepted = r.accepted,
                                          !.resync = (r.accepted /\ lastSync # 0)]
  /\ pc' = "clear"
  /\ UNCHANGED <<variant, usingPPS, call, sinceTouch, air, finger, rx, envCount, gps, pps, t, oldT, lt, oldLt, tz,
                 use12hrFormat, useLocalTime, screenID, screen>>

\* syncCheck() of part_003 and GPS_CLOCK_single, second statement:  pps=0;
SyncCheckClear ==
  /\ pc = "clear"
  /\ pps' = ppsReset(pps)
  /\ ppsRead' = 0
  /\ pc' = "display"
  /\ ev' = Ev("syncClear")
  /\ UNCHANGED <<variant, usingPPS, call, sinceTouch, air, finger, rx, sysTime, envCount, gps, progVars>>

\* syncCheck() of GPS_CLOCK_plus, first statement:  if (USING_PPS && !pps) return;
SyncCheckPulse ==
  /\ pc = "sync"
  /\ variant = "plus"
  /\ ppsRead' = pps
  /\ pc' = IF PulseReturn(pps, usingPPS) THEN "display" ELSE "gate"
  /\ ev' = Ev("syncPulse")
  /\ UNCHANGED <<variant, usingPPS, call, sinceTouch, air, finger, rx, sysTime, envCount, gps, pps, progVars>>

\* syncCheck() of GPS_CLOCK_plus, the rest: pps = 0; then the interval gate
SyncCheckGate ==
  /\ pc = "gate"
  /\ pps' = ppsReset(pps)
  /\ LET go == IntervalGate(sysTime, lastSync)
         r  == IF go THEN syncWithGPS(variant, gps, sysTime, lastSync)
               ELSE [sysTime |-> sysTime, lastSync |-> lastSync, accepted |-> FALSE]
     IN  /\ sysTime' = r.sysTime
         /\ lastSync' = r.lastSync
         /\ ev' = [Ev("syncGate") EXCEPT !.flag = ppsRead,
                                         !.tried = go, !.accepted = r.accepted,
                                         !.resync = (r.accepted /\ lastSync # 0)]
  /\ ppsRead' = 0
  /\ pc' = "display"
  /\ UNCHANGED <<variant, usingPPS, call, sinceTouch, air, finger, rx, envCount, gps, t, oldT, lt, oldLt, tz,
                 use12hrFormat, useLocalTime, screenID, screen>>

\* syncCheck() of GPS_CLOCK_step11, first statement:  if (pps) syncWithGPS();
SyncCheckTest11 ==
  /\ pc = "sync"
  /\ variant = "step11"
  /\ ppsRead' = pps
  /\ LET go == pps # 0
         r  == IF go THEN syncWithGPS(variant, gps, sysTime, lastSync)
               ELSE [sysTime |-> sysTime, lastSync |-> lastSync, accepted |-> FALSE]
     IN  /\ sysTime' = r.sysTime
         /\ lastSync' = r.lastSync
         /\ ev' = [Ev("syncCheck11") EXCEPT !.flag = pps,
                                            !.tried = go, !.accepted = r.accepted]
  /\ pc' = "clear"
  /\ UNCHANGED <<variant, usingPPS, call, sinceTouch, air, finger, rx, envCount, gps, pps, t, oldT, lt, oldLt, tz,
                 use12hrFormat, useLocalTime, screenID, screen>>

\* updateDisplay that redraws on every call
newSecond_Always(now, shown) == TRUE

\* updateDisplay(): if (t != oldT), in GPS_CLOCK_single if (t != utc): the
\* clock no longer reads the instant displayed last
newSecond(now, shown) == now # shown

\* updateDisplay() of GPS_CLOCK_step11: one read of now(), converted at once
\* (an instant before 1970 stands for its wrap in the unsigned time_t; the
\* date line of this sketch is not tracked)
UpdateDisplay11 ==
  /\ pc = "display"
  /\ variant = "step11"
  /\ IF newSecond(sysTime, t)
     THEN LET local == toLocal(sysTime)
          IN  /\ lt' = local
              /\ t' = sysTime
              /\ ev' = [Ev("updateDisplay11") EXCEPT !.times = {local}]
     ELSE /\ ev' = Ev("updateDisplay11")
          /\ UNCHANGED <<lt, t>>
  /\ pc' = "feed"
  /\ UNCHANGED <<variant, usingPPS, call, sinceTouch, air, finger, rx, sysTime, envCount, gps, pps, ppsRead,
                 lastSync, oldT, oldLt, tz, use12hrFormat, useLocalTime,
                 screenID, screen>>

\* the seconds the clock may gain between the first read of now() in
\* updateDisplay and the later reads (localTime, second, showClockStatus)
MidTicks == IF envCount < MaxEnv THEN {0, 1} ELSE {0}

\* updateDisplay() of part_003 (three screens) and of GPS_CLOCK_plus (dual only)
UpdateDisplay ==
  /\ pc = "display"
  /\ variant \in {"full", "plus"}
  /\ t' = sysTime
  /\ IF newSecond(sysTime, oldT)
     THEN \E d \in MidTicks :
          \E loc \in {localTime(sysTime + d, lastSync, tz)} :
          \E drw \in {updateScreen(variant, screenID, useLocalTime, sysTime,
                                   loc.lt, oldLt, oldT, lastSync)} :
            LET now2 == sysTime + d
                col  == showClockStatus(variant, now2, lastSync)
                dual == variant = "plus" \/ screenID = 1
            IN  /\ sysTime' = now2
                /\ envCount' = envCount + d
                /\ lt' = loc.lt
                /\ tz' = loc.tz
                /\ useLocalTime' = IF dual THEN FALSE ELSE useLocalTime
                /\ screen' = [status |-> IF col = "none" THEN screen.status ELSE col,
                              date |-> IF variant = "full" /\ screenID = 0
                                       THEN dateLine(drw, screen.date)
                                       ELSE screen.date]
                /\ oldT' = sysTime
                /\ oldLt' = loc.lt
                /\ ev' = [Ev("updateDisplay") EXCEPT !.painted = col,
                              !.times = drw.times, !.dates = drw.dates,
                              !.hours = IF variant = "full" /\ screenID = 1
                                        THEN <<showTimeD(loc.lt, LOCAL_FORMAT_12HR,
                                                         use12hrFormat),
                                               showTimeD(sysTime, UTC_FORMAT_12HR,
                                                         use12hrFormat)>>
                                        ELSE <<>>]
     ELSE /\ ev' = Ev("updateDisplay")
          /\ UNCHANGED <<sysTime, envCount, lt, tz, useLocalTime, screen, oldT, oldLt>>
  /\ pc' = IF variant = "plus" THEN "feed" ELSE "touch"
  /\ UNCHANGED <<variant, usingPPS, call, sinceTouch, air, finger, rx, gps, pps, ppsRead, lastSync,
                 use12hrFormat, screenID>>

\* updateDisplay() of GPS_CLOCK_single
UpdateDisplay1 ==
  /\ pc = "display"
  /\ variant = "single"
  /\ IF newSecond(sysTime, t)
     THEN \E d \in MidTicks :
          \E loc \in {localTime(sysTime + d, lastSync, tz)} :
          \E drw \in {updateTimeScreen(variant, useLocalTime, sysTime, loc.lt, lt, t)} :
            LET now2 == sysTime + d
                col  == IF minute(now2) # minute(t)
                        THEN showClockStatus(variant, now2, lastSync) ELSE "none"
            IN  /\ sysTime' = now2
                /\ envCount' = envCount + d
                /\ lt' = loc.lt
                /\ tz' = loc.tz
                /\ t' = sysTime
                /\ screen' = IF col = "none" THEN screen
                             ELSE [screen EXCEPT !.status = col]
                /\ ev' = [Ev("updateDisplay") EXCEPT !.painted = col,
                              !.times = drw.times, !.dates = drw.dates]
     ELSE /\ ev' = Ev("updateDisplay")
          /\ UNCHANGED <<sysTime, envCount, lt, tz, t, screen>>
  /\ pc' = "touch"
  /\ UNCHANGED <<variant, usingPPS, call, sinceTouch, air, finger, rx, gps, pps, ppsRead, lastSync, oldT, oldLt,
                 use12hrFormat, useLocalTime, screenID>>

\* newScreen entering a screen that does not exist
NewScreen_Beyond(id) ==
  /\ screenID' = id + 2
  /\ oldT' = 0
  /\ oldLt' = 0
  /\ screen' = [status |-> "none",
                date |-> dateLine(IF id = 0 THEN timeScreen(t) ELSE NoDraw, NoDate)]
  /\ useLocalTime' = IF id = 0 THEN SHOW_LOCAL_TIME ELSE useLocalTime

\* newScreen that leaves the cached instants as they are
NewScreen_KeepCache(id) ==
  /\ screenID' = id
  /\ oldT' = oldT
  /\ oldLt' = oldLt
  /\ screen' = [status |-> "none",
                date |-> dateLine(IF id = 0 THEN timeScreen(t) ELSE NoDraw, NoDate)]
  /\ useLocalTime' = IF id = 0 THEN SHOW_LOCAL_TIME ELSE useLocalTime

\* newScreen() of part_003 entering screen id: both caches reset, screen cleared
\* (timeScreen() also restores the zone preference)
NewScreen(id) ==
  /\ screenID' = id
  /\ oldT' = 0
  /\ oldLt' = 0
  /\ screen' = [status |-> "none",
                date |-> dateLine(IF id = 0 THEN timeScreen(t) ELSE NoDraw, NoDate)]
  /\ useLocalTime' = IF id = 0 THEN SHOW_LOCAL_TIME ELSE useLocalTime

\* checkForTouch() of part_003: the handler the if / else-if chain calls
dispatch(id, p) ==
  IF id # 0 THEN {"newScreen"}
  ELSE IF inRegion(rTime, p.x, p.y) THEN {"touchedTime"}
  ELSE IF inRegion(rLocn, p.x, p.y) THEN {"touchedLocation"}
  ELSE IF inRegion(rPM, p.x, p.y) THEN {"touchedPM"}
  ELSE IF inRegion(rTZ, p.x, p.y) THEN {"touchedTZ"}
  ELSE {}

\* checkForTouch() of GPS_CLOCK_single: checkTouchPM(x,y); checkTouchTZ(x,y);
\* each tests its own regions
dispatch1(p) ==
  (IF inRegion(rPM1, p.x, p.y) \/ inRegion(rTime, p.x, p.y) THEN {"checkTouchPM"} ELSE {})
  \cup (IF inRegion(rTZ1, p.x, p.y) THEN {"checkTouchTZ"} ELSE {})

\* touched() is tft.getTouchRawZ() > threshold: true at every poll during
\* which the finger is down.  The points tft.getTouch() can return: where the
\* finger still rests from the poll before, else anywhere
Pressed == IF finger.down THEN {finger.at} ELSE TouchPoints

\* whether the finger is still down when the next poll comes, after the
\* delay and the rest of loop(): it may be either
Held == BOOLEAN

\* the polls that have found the present press, this one included
Polls == IF finger.down THEN finger.polls + 1 ELSE 1

\* the panel after a poll that found the finger at p
Touching(p, stay) ==
  IF stay THEN [down |-> TRUE, at |-> p, polls |-> Polls] ELSE NoFinger

\* checkForTouch() of part_003: its effect on the program and the panel
TouchStep ==
  /\ pc = "touch"
  /\ variant = "full"
  /\ \/ /\ ev' = Ev("noTouch")
        /\ finger' = NoFinger
        /\ UNCHANGED <<envCount, screenID, oldT, oldLt, screen, useLocalTime,
                       use12hrFormat, sinceTouch>>
     \/ \E p \in Pressed : \E stay \in Held :
          /\ envCount < MaxEnv
          /\ envCount' = envCount + 1
          /\ finger' = Touching(p, stay)
          /\ sinceTouch' = debounce(0)
          /\ LET drw == IF screenID # 0 THEN timeScreen(t)
                        ELSE IF inRegion(rTime, p.x, p.y) \/ inRegion(rLocn, p.x, p.y)
                        THEN NoDraw
                        ELSE IF inRegion(rPM, p.x, p.y)
                        THEN touchedPM(useLocalTime, t, lt)
                        ELSE IF inRegion(rTZ, p.x, p.y)
                        THEN touchedTZ(variant, ~useLocalTime, t, lt)
                        ELSE NoDraw
             IN  ev' = [Ev("touch") EXCEPT !.at = p, !.from = screenID,
                                           !.quiet = sinceTouch, !.polls = Polls,
                                           !.acts = dispatch(screenID, p),
                                           !.times = drw.times,
                                           !.dates = drw.dates]
          /\ IF screenID # 0
             THEN NewScreen(0) /\ UNCHANGED use12hrFormat
             ELSE IF inRegion(rTime, p.x, p.y)
             THEN NewScreen(1) /\ UNCHANGED use12hrFormat
             ELSE IF inRegion(rLocn, p.x, p.y)
             THEN NewScreen(2) /\ UNCHANGED use12hrFormat
             ELSE IF inRegion(rPM, p.x, p.y)
             THEN /\ use12hrFormat' = ~use12hrFormat
                  /\ UNCHANGED <<screenID, oldT, oldLt, screen, useLocalTime>>
             ELSE IF inRegion(rTZ, p.x, p.y)
             THEN /\ useLocalTime' = ~useLocalTime
                  /\ use12hrFormat' = ~useLocalTime
                  /\ screen' = [screen EXCEPT !.date =
                                  dateLine(touchedTZ(variant, ~useLocalTime, t, lt),
                                           screen.date)]
                  /\ UNCHANGED <<screenID, oldT, oldLt>>
             ELSE UNCHANGED <<screenID, oldT, oldLt, screen, useLocalTime, use12hrFormat>>
  /\ pc' = "feed"
  /\ UNCHANGED <<variant, usingPPS, air, rx, sysTime, gps, pps, ppsRead,
                 lastSync, t, lt, tz>>

\* checkForTouch() of part_003
CheckForTouch == TouchStep /\ UNCHANGED call

\* checkForTouch() of GPS_CLOCK_single, checkTouchPM then checkTouchTZ: its
\* effect on the program and the panel
TouchStep1 ==
  /\ pc = "touch"
  /\ variant = "single"
  /\ \/ /\ ev' = Ev("noTouch")
        /\ finger' = NoFinger
        /\ UNCHANGED <<envCount, useLocalTime, use12hrFormat, sinceTouch>>
     \/ \E p \in Pressed : \E stay \in Held :
          LET pm  == inRegion(rPM1, p.x, p.y) \/ inRegion(rTime, p.x, p.y)
              h12 == IF pm THEN ~use12hrFormat ELSE use12hrFormat
          IN  /\ envCount < MaxEnv
              /\ envCount' = envCount + 1
              /\ finger' = Touching(p, stay)
              /\ sinceTouch' = debounce(0)
              /\ LET a == IF pm THEN touchedPM(useLocalTime, t, lt) ELSE NoDraw
                     b == IF inRegion(rTZ1, p.x, p.y)
                          THEN touchedTZ(variant, ~useLocalTime, t, lt) ELSE NoDraw
                 IN  ev' = [Ev("touch") EXCEPT !.at = p, !.quiet = sinceTouch,
                                               !.polls = Polls,
                                               !.acts = dispatch1(p),
                                               !.times = a.times \cup b.times,
                                               !.dates = a.dates \cup b.dates]
              /\ IF inRegion(rTZ1, p.x, p.y)
                 THEN useLocalTime' = ~useLocalTime /\ use12hrFormat' = ~useLocalTime
                 ELSE useLocalTime' = useLocalTime /\ use12hrFormat' = h12
  /\ pc' = "feed"
  /\ UNCHANGED <<variant, usingPPS, air, rx, sysTime, gps, pps, ppsRead,
                 lastSync, t, oldT, lt, oldLt, tz, screenID, screen>>

\* checkForTouch() of GPS_CLOCK_single
CheckForTouch1 == TouchStep1 /\ UNCHANGED call

\* loop() of GPS_CLOCK_step4: tft.drawNumber(pps,50,50,7); the sketch reads
\* the count and writes no variable (the digits drawn are not tracked)
DrawCount ==
  /\ pc = "draw"
  /\ ev' = Ev("drawCount")
  /\ UNCHANGED <<variant, usingPPS, call, sinceTouch, air, finger, rx, pc, sysTime, envCount, gps, pps, ppsRead,
                 progVars>>

MainStep ==
  \/ FeedGPS
  \/ SyncCheckTest
  \/ SyncCheckClear
  \/ SyncCheckPulse
  \/ SyncCheckGate
  \/ SyncCheckTest11
  \/ UpdateDisplay
  \/ UpdateDisplay11
  \/ UpdateDisplay1
  \/ CheckForTouch
  \/ CheckForTouch1
  \/ DrawCount

Next ==
  \/ MainStep
  \/ PpsHandler
  \/ Tick
  \/ GpsAge

Spec == Init /\ [][Next]_vars

\* The zone-conversion specification: localTime() applied to a synchronized
\* clock that starts two seconds before a change of rule or of year and runs
\* through it.
ZoneStarts ==
  { makeTime(h, 59, 58, d, mo, Y - 1970) :
      <<h, d, mo, Y>> \in { <<6, 12, 3, 2000>>, <<5, 5, 11, 2000>>,
                           <<6, 14, 3, 2021>>, <<5, 7, 11, 2021>>,
                           <<23, 31, 12, 2021>>,
                           <<6, 13, 3, 2022>>, <<5, 6, 11, 2022>>,
                           <<6, 8, 3, 2037>>, <<5, 1, 11, 2037>> } }

ZoneInit ==
  /\ variant = "full"
  /\ usingPPS = TRUE
  /\ pc = "display"
  /\ sysTime \in ZoneStarts
  /\ lastSync = sysTime
  /\ envCount = 0
  /\ rx = NoRx
  /\ gps = NoFix
  /\ pps = 0
  /\ ppsRead = 0
  /\ t = 0 /\ oldT = 0 /\ lt = 0 /\ oldLt = 0
  /\ tz = "NULL"
  /\ use12hrFormat = LOCAL_FORMAT_12HR
  /\ useLocalTime = SHOW_LOCAL_TIME
  /\ screenID = FIRST_SCREEN
  /\ screen = BlankScreen
  /\ call = NoCall
  /\ sinceTouch = -1
  /\ air = NoAir
  /\ finger = NoFinger
  /\ ev = NoEv

\* the clock gains a second
ZoneTick ==
  /\ envCount < ZoneSteps
  /\ sysTime' = sysTime + 1
  /\ envCount' = envCount + 1
  /\ ev' = NoEv
  /\ UNCHANGED <<variant, usingPPS, call, sinceTouch, air, finger, rx, pc, gps, pps, ppsRead, progVars>>

\* t = now(); lt = localTime();  with no second between the two reads
ZoneConvert ==
  /\ LET loc == localTime(sysTime, lastSync, tz)
     IN  lt' = loc.lt /\ tz' = loc.tz
  /\ t' = sysTime
  /\ ev' = Ev("localTime")
  /\ UNCHANGED <<variant, usingPPS, call, sinceTouch, air, finger, rx, pc, sysTime, envCount, gps, pps, ppsRead,
                 lastSync, oldT, oldLt, use12hrFormat, useLocalTime, screenID,
                 screen>>

ZoneNext == ZoneTick \/ ZoneConvert

ZoneSpec == ZoneInit /\ [][ZoneNext]_vars

\* Library routines called on their own.  The start state holds the
\* arguments of one call; the step applies the routine to them.

\* the regions of the sketches
Regions == {rPM, rTZ, rTime, rLocn, rPM1, rTZ1}

\* coordinates around the two ends of a side that starts at a and is w long
Around(a, w) == {a - 1, a, a + 1, a + w - 1, a + w, a + w + 1}

RegionCalls(b) ==
  { [op |-> "inRegion?", b |-> b, x |-> x, y |-> y] :
      x \in Around(b.x, b.w), y \in Around(b.y, b.h) }

CallInputs == (UNION { RegionCalls(b) : b \in Regions }) \cup GridCalls

CallInit ==
  /\ variant = "full"
  /\ usingPPS = TRUE
  /\ pc = "touch"
  /\ sysTime = 0
  /\ envCount = 0
  /\ rx = NoRx
  /\ gps = NoFix
  /\ pps = 0
  /\ ppsRead = 0
  /\ lastSync = 0
  /\ t = 0 /\ oldT = 0 /\ lt = 0 /\ oldLt = 0
  /\ tz = "NULL"
  /\ use12hrFormat = LOCAL_FORMAT_12HR
  /\ useLocalTime = SHOW_LOCAL_TIME
  /\ screenID = 0
  /\ screen = BlankScreen
  /\ call \in CallInputs
  /\ sinceTouch = -1
  /\ air = NoAir
  /\ finger = NoFinger
  /\ ev = NoEv

callFrame == <<variant, usingPPS, pc, sysTime, envCount, rx, gps, pps, ppsRead,
               progVars, sinceTouch, air, finger, ev>>

\* inRegion(b, x, y)
CallInRegion ==
  /\ call.op = "inRegion?"
  /\ call' = [op |-> "inRegion", b |-> call.b, x |-> call.x, y |-> call.y,
              out |-> inRegion(call.b, call.x, call.y)]
  /\ UNCHANGED callFrame

\* getGridSquare(gs, lat, lon, len)
CallGetGridSquare ==
  /\ call.op = "getGridSquare?"
  /\ call' = [op |-> "getGridSquare", gs |-> call.gs, lat |-> call.lat,
              lon |-> call.lon, len |-> call.len,
              out |-> getGridSquare(call.gs, call.lat, call.lon, call.len)]
  /\ UNCHANGED callFrame

CallNext == CallInRegion \/ CallGetGridSquare

CallSpec == CallInit /\ [][CallNext]_vars

\* The pulse specification: part_003 with USING_PPS behind a receiver that
\* keeps UTC.  Each UTC second begins with the 1pps edge; the sentence that
\* carries the time of that second arrives in the UART buffer some time after
\* the edge and before the next one.  The statements of loop() interleave
\* with both in every order.
FirstSecond == makeTime(12, 34, 9, 15, 6, tmYear(2021))

\* the time and date fields of the sentence sent during UTC second S
Sentence(S) ==
  [hour |-> hour(S), minute |-> minute(S), second |-> second(S),
   day |-> day(S), month |-> month(S), year |-> year(S)]

PulseInit ==
  /\ variant = "full"
  /\ usingPPS = TRUE
  /\ pc = "feed"
  /\ sysTime = 0
  /\ envCount = 0
  /\ rx = NoRx
  /\ gps = NoFix
  /\ pps = 0
  /\ ppsRead = 0
  /\ lastSync = 0
  /\ t = 0 /\ oldT = 0 /\ lt = 0 /\ oldLt = 0
  /\ tz = "NULL"
  /\ use12hrFormat = LOCAL_FORMAT_12HR
  /\ useLocalTime = SHOW_LOCAL_TIME
  /\ screenID = FIRST_SCREEN
  /\ screen = BlankScreen
  /\ call = NoCall
  /\ sinceTouch = -1
  /\ air = [utc |-> FirstSecond, sent |-> FALSE, raised |-> 0]
  /\ finger = NoFinger
  /\ ev = NoEv

\* a UTC second begins: the receiver raises 1pps and ppsHandler() runs.  A
\* decode of a second before the one that just ended is older than 1000 ms.
PulseEdge ==
  /\ air.utc < FirstSecond + MaxPulses
  /\ air' = [utc |-> air.utc + 1, sent |-> FALSE,
             raised |-> IF pps = 0 THEN air.utc + 1 ELSE air.raised]
  /\ pps' = ppsHandler(variant, pps)
  /\ gps' = IF gps.valid /\ decodedInstant(gps) < air.utc
            THEN [gps EXCEPT !.age = OldestAge] ELSE gps
  /\ ev' = Ev("ppsHandler")
  /\ UNCHANGED <<variant, usingPPS, call, sinceTouch, finger, rx, pc, sysTime, envCount,
                 ppsRead, progVars>>

\* the sentence of the second in progress has arrived in the UART buffer
SentenceArrives ==
  /\ ~air.sent
  /\ air' = [air EXCEPT !.sent = TRUE]
  /\ rx' = [left |-> 1, smp |-> Sentence(air.utc)]
  /\ ev' = NoEv
  /\ UNCHANGED <<variant, usingPPS, call, sinceTouch, finger, pc, sysTime, envCount, gps,
                 pps, ppsRead, progVars>>

\* feedGPS() behind this receiver: reads what has arrived
PulseFeed ==
  /\ pc = "feed"
  /\ gps' = IF rx.left > 0 /\ feedCount(variant, rx.left) = rx.left
            THEN Commit(rx.smp) ELSE gps
  /\ rx' = NoRx
  /\ ev' = Ev("feedGPS")
  /\ pc' = "sync"
  /\ UNCHANGED <<variant, usingPPS, call, sinceTouch, air, finger, sysTime, envCount, pps,
                 ppsRead, progVars>>

PulseNext ==
  \/ PulseEdge
  \/ SentenceArrives
  \/ PulseFeed
  \/ GpsAge
  \/ SyncCheckTest
  \/ SyncCheckClear
  \/ UpdateDisplay
  \/ CheckForTouch

PulseSpec == PulseInit /\ [][PulseNext]_vars

\* The toggle specification: part_003 on screen 0 and GPS_CLOCK_single, each
\* starting in any of the four settings of (useLocalTime, use12hrFormat) that
\* touches of the AM/PM and zone regions lead to, with the clock not yet set.
\* The loop runs on from checkForTouch(); call keeps the flags at the start
\* and the handlers each dispatched touch has run since.
ToggleInit ==
  /\ variant \in {"full", "single"}
  /\ usingPPS = TRUE
  /\ pc = "touch"
  /\ sysTime = 0
  /\ envCount = 0
  /\ rx = NoRx
  /\ gps = NoFix
  /\ pps = 0
  /\ ppsRead = 0
  /\ lastSync = 0
  /\ t = 0 /\ oldT = 0 /\ lt = 0 /\ oldLt = 0
  /\ tz = "NULL"
  /\ use12hrFormat \in BOOLEAN
  /\ useLocalTime \in BOOLEAN
  /\ screenID = 0
  /\ screen = BlankScreen
  /\ call = [op |-> "touches", flags |-> <<useLocalTime, use12hrFormat>>, acts |-> <<>>]
  /\ sinceTouch = -1
  /\ air = NoAir
  /\ finger = NoFinger
  /\ ev = NoEv

\* checkForTouch() with the handlers it ran added to the record
ToggleTouch ==
  /\ TouchStep \/ TouchStep1
  /\ call' = IF ev'.op = "touch"
             THEN [call EXCEPT !.acts = Append(call.acts, ev'.acts)] ELSE call

ToggleNext ==
  \/ ToggleTouch
  \/ FeedGPS
  \/ SyncCheckTest
  \/ SyncCheckClear
  \/ UpdateDisplay
  \/ UpdateDisplay1

ToggleSpec == ToggleInit /\ [][ToggleNext]_vars

\* The liveness specification.  The main loop never stops: every statement of
\* loop() returns, so the loop's next statement is always taken in the end.
\* Pulses and completed sentences may arrive for ever; of the budgeted
\* environment events (clock advance, touch) a single one is left, which is
\* enough to take each of them and keeps the behaviour graph small.
FairInit == Setup /\ envCount = MaxEnv - 1

FairSpec == FairInit /\ [][Next]_vars /\ WF_vars(MainStep)

-----------------------------------------------------------------------------
(* Properties *)

SyncOps == {"syncCheck", "syncGate"}

\* the state right after a syncCheck that called syncWithGPS
Attempted == ev.op \in SyncOps /\ ev.tried

Fresh == gps.valid /\ gps.age < 1000

\* C1: after every permitted sync attempt whose time field is valid with
\* age < 1000 ms, the time base is the instant built from the decoded
\* (h,m,s,d,mo,y) plus exactly one second, and lastSync is that same value
\* (15 Jun 2021 12:34:09 UTC is second 1623760449 of the epoch).
C1_SyncSetsClock ==
  (Attempted /\ Fresh) =>
     /\ sysTime = decodedInstant(gps) + 1
     /\ lastSync = sysTime
     /\ (gps.year = 2021 => sysTime = 1623760450)

C1_Witness ==
  /\ Attempted /\ Fresh
  /\ usingPPS /\ ev.flag = 1
  /\ gps.year = 2021
  /\ ev.resync

\* C2 (as claimed): a sync attempt whose time field is invalid or whose age
\* is >= 1000 ms, 1000 included, leaves the time base and lastSync unchanged.
C2_StaleLeavesClock ==
  [][ (ev'.op \in SyncOps /\ ev'.tried /\ (~gps.valid \/ gps.age >= 1000))
        => (sysTime' = sysTime /\ lastSync' = lastSync) ]_vars

\* C3: in the pulse-gated syncCheck, with USING_PPS syncWithGPS is called in
\* a poll cycle only if the flag was set when read; without USING_PPS it is
\* called in every poll cycle whatever the flag.  (The first half also holds
\* of the interval-gated syncCheck.)
C3_PulseGate ==
  /\ (ev.op \in SyncOps /\ usingPPS /\ ev.tried) => ev.flag # 0
  /\ (ev.op = "syncCheck" /\ ~usingPPS) => ev.tried

C3_Witness ==
  /\ ev.op = "syncCheck" /\ ~usingPPS /\ ev.tried /\ ev.flag = 0 /\ ev.accepted

\* C4 (as claimed): the main loop never clears a flag value of 1 that it did
\* not first observe as set, under every interleaving with ppsHandler.
C4_NoPulseLost ==
  [][ (variant # "step4" /\ usingPPS /\ pps # 0 /\ pps' = 0) => ppsRead # 0 ]_vars

\* C5: at the end of every syncCheck call (the state its last statement
\* leaves) pps = 0, whether the sync was accepted, rejected or not attempted.
SyncCheckEnded ==
  \/ ev.op \in {"syncClear", "syncGate"}
  \/ ev.op = "syncPulse" /\ pc = "display"

C5_FlagCleared == SyncCheckEnded => pps = 0

C5_Witness ==
  /\ ev.op = "syncGate" /\ ev.flag = 1 /\ ~ev.tried /\ pps = 0

\* what ppsHandler must leave alone
handlerFrame == <<sysTime, lastSync, t, lt, oldT, oldLt, screen, screenID,
                  use12hrFormat, useLocalTime, tz, gps>>

\* C6 (as claimed): the handler does one thing, it sets the flag to 1, and
\* leaves everything else unchanged; the main loop only ever clears the flag.
C6_HandlerSetsOne ==
  [][ /\ (ev'.op = "ppsHandler") => (pps' = 1 /\ UNCHANGED handlerFrame)
      /\ (ev'.op # "ppsHandler") => (pps' = pps \/ pps' = 0) ]_vars

\* C6 (amended): the handler does one thing to one variable: it sets the flag
\* to 1, or in the step-4 sketch, where pps counts pulses, increments the
\* byte; it leaves everything else unchanged; the main loop only ever clears
\* the flag.
C6_HandlerOnlyFlag ==
  [][ /\ (ev'.op = "ppsHandler") =>
           /\ pps' = (IF variant = "step4" THEN (pps + 1) % 256 ELSE 1)
           /\ UNCHANGED handlerFrame
      /\ (ev'.op # "ppsHandler") => (pps' = pps \/ pps' = 0) ]_vars

C6_Witness ==
  /\ ev.op = "ppsHandler" /\ variant = "full" /\ pps = 1
  /\ lastSync # 0 /\ screen.status # "none"

\* C7: in the interval-gated sketch syncWithGPS is attempted only when
\* lastSync is unset or now - lastSync >= 100; so a sync that follows an
\* earlier one finds at least 100 s of time base elapsed since it, and a
\* rejected attempt leaves lastSync as it was and the gate open.
C7_IntervalGate ==
  [][ (variant = "plus" /\ ev'.op = "syncGate") =>
        /\ ev'.tried => (lastSync = 0 \/ sysTime - lastSync >= 100)
        /\ (ev'.accepted /\ lastSync # 0) => sysTime - lastSync >= 100
        /\ (ev'.tried /\ ~ev'.accepted) =>
              /\ lastSync' = lastSync
              /\ (lastSync' = 0 \/ sysTime' - lastSync' >= 100) ]_vars

C7_Witness ==
  /\ variant = "plus" /\ ev.op = "syncGate" /\ ev.resync

\* a poll cycle ran syncCheck with the flag set while the time field was
\* valid and fresh
AttemptFresh == ev.op \in SyncOps /\ ev.flag # 0 /\ Fresh

\* C8: no poll cycle blocks, and a failed sync is retried for ever: the loop
\* keeps returning to its first statement, and if infinitely often a cycle
\* runs syncCheck with the flag set while the time field is valid and fresh
\* then lastSync eventually is set and, in the pulse-gated sketches, a sync
\* succeeds infinitely often.
C8_RetryForever ==
  /\ []<>(pc \in {"feed", "draw"})
  /\ ([]<>AttemptFresh) =>
        /\ <>(lastSync # 0)
        /\ (variant \in PulseOnly) => []<>(ev.accepted)

C8_Witness ==
  /\ AttemptFresh /\ ev.accepted /\ usingPPS /\ variant \in PulseOnly /\ ev.resync

\* C9: the colour showClockStatus paints is a function of age = now - lastSync
\* alone: green iff age < 3600, orange iff 3600 <= age < 86400, red iff
\* age >= 86400, and age >= 0.
C9_StatusGrade ==
  (ev.painted # "none") =>
     LET age == sysTime - lastSync
     IN  /\ age >= 0
         /\ (ev.painted = "green") <=> (age < 3600)
         /\ (ev.painted = "orange") <=> (3600 <= age /\ age < 86400)
         /\ (ev.painted = "red") <=> (age >= 86400)

C9_Witness ==
  /\ ev.painted = "red" /\ lastSync # 0 /\ sysTime - lastSync = 86400

\* C10 (as claimed): while lastSync is unset the status indicator is never
\* drawn.
C10_NoStatusBeforeSync == (lastSync = 0) => (screen.status = "none")

\* C11 (as claimed): while no sync has succeeded no display routine formats
\* an instant: every step draws neither a time of day nor a date.
C11_NoUnsetRender ==
  (variant \in Tracking /\ lastSync = 0) => (ev.times = {} /\ ev.dates = {})

\* C12 (as claimed): while lastSync = 0 the UTC instant t and the local
\* instant lt are both 0.
C12_UnsetUntilSync ==
  (variant \in Tracking /\ lastSync = 0) => (t = 0 /\ lt = 0)

\* C13 (as claimed): once a sync has succeeded, at the end of every display
\* refresh lt = toLocal(t), whenever the second ticks.
C13_LocalOfUtc ==
  (ev.op = "updateDisplay" /\ lastSync # 0) => lt = toLocal(t)

\* C14: while no sync has occurred localTime returns 0 and leaves the rule
\* pointer tz alone: lt is 0 and tz is still NULL after every refresh.
C14_LocalTimeUnset ==
  (variant \in Tracking /\ lastSync = 0) => (lt = 0 /\ tz = "NULL")

C14_Witness ==
  /\ variant = "full" /\ lastSync = 0 /\ ev.op = "updateDisplay" /\ ev.times # {}
  /\ t > 0 /\ lt = 0 /\ tz = "NULL"

\* Reference instants (seconds of the epoch, UTC) for the configured pair:
\* the year's first second, the second Sunday of March 02:00 EST (07:00 UTC)
\* and the first Sunday of November 02:00 EDT (06:00 UTC).
ZoneYears ==
  { [first |-> 946684800,  dst |-> 952844400,  std |-> 973404000,  last |-> 978307199],
    [first |-> 1609459200, dst |-> 1615705200, std |-> 1636264800, last |-> 1640995199],
    [first |-> 1640995200, dst |-> 1647154800, std |-> 1667714400, last |-> 1672531199],
    [first |-> 2114380800, dst |-> 2120108400, std |-> 2140668000, last |-> 2145916799] }

\* C15: toLocal(utc) = utc + 60 * offset of the active rule, which is EST
\* (-300) if utc is before the year's daylight transition or at/after its
\* standard transition and EDT (-240) otherwise; the abbreviation stored is
\* the active rule's, and a given utc always converts to the same pair.
C15_ZoneRule ==
  (ev.op = "localTime") =>
     \E y \in ZoneYears :
        /\ y.first <= t /\ t <= y.last
        /\ LET standard == t < y.dst \/ t >= y.std
           IN  /\ lt = t + (IF standard THEN -300 ELSE -240) * 60
               /\ tz = (IF standard THEN "EST" ELSE "EDT")
               /\ lt = toLocal(t)

C15_Witness ==
  /\ ev.op = "localTime" /\ t = 1636264800 /\ tz = "EST" /\ lt = 1636264800 - 18000

\* C16 (as claimed): every poll cycle drains all pending decoder input before
\* its sync attempt: when syncCheck calls syncWithGPS, no byte that waited in
\* the receive buffer at the start of the cycle is still unread.
C16_SyncSeesPending ==
  (ev.op \in SyncOps \cup {"syncCheck11"} /\ ev.tried) => rx.left = 0

\* C17: on a non-primary screen (dual time or location) a touch at any
\* coordinates sets the screen to PRIMARY and resets oldT and oldLt to 0, and
\* no step takes a non-primary screen to anything but itself or PRIMARY.
C17_AnyTouchToPrimary ==
  [][ (screenID # 0) =>
        /\ screenID' \in {screenID, 0}
        /\ (ev'.op = "touch") => (screenID' = 0 /\ oldT' = 0 /\ oldLt' = 0) ]_vars

C17_Witness ==
  /\ ev.op = "touch" /\ ev.from = 2 /\ ev.at = [x |-> 5, y |-> 5]
  /\ screenID = 0 /\ oldT = 0 /\ oldLt = 0 /\ t # 0 /\ lastSync # 0

\* C18 (as claimed): on PRIMARY a touch inside the time region leads to
\* DUAL_TIME (screen 1) and a touch inside the location region leads to
\* LOCATION (screen 2).
C18_RegionScreens ==
  (variant = "full" /\ ev.op = "touch" /\ ev.from = 0) =>
     /\ inRegion(rTime, ev.at.x, ev.at.y) => screenID = 1
     /\ inRegion(rLocn, ev.at.x, ev.at.y) => screenID = 2

\* C19 (as claimed): on PRIMARY a touch in the zone region toggles
\* useLocalTime and a touch in the AM/PM region toggles use12hrFormat; either
\* leaves the screen PRIMARY and the clock, lastSync and the instants t, lt,
\* oldT, oldLt unchanged.
C19_Toggles ==
  [][ (variant = "full" /\ screenID = 0 /\ ev'.op = "touch") =>
        LET zone == inRegion(rTZ, ev'.at.x, ev'.at.y)
            ampm == inRegion(rPM, ev'.at.x, ev'.at.y)
        IN  /\ zone => useLocalTime' = ~useLocalTime
            /\ ampm => use12hrFormat' = ~use12hrFormat
            /\ (zone \/ ampm) =>
                  /\ screenID' = 0
                  /\ UNCHANGED <<sysTime, lastSync, t, lt, oldT, oldLt>> ]_vars

\* C20 (as claimed): from screen 0 a touch on the location area leads to
\* screen 1 and a touch on the time leads to screen 2, as the usage notes in
\* the sketch's header say.
C20_UsageNotes ==
  (variant = "full" /\ ev.op = "touch" /\ ev.from = 0) =>
     /\ inRegion(rLocn, ev.at.x, ev.at.y) => screenID = 1
     /\ inRegion(rTime, ev.at.x, ev.at.y) => screenID = 2

\* C21: inRegion(b, x, y) is true iff b.x <= x <= b.x + b.w and
\* b.y <= y <= b.y + b.h: both corners (x0, y0) and (x0 + w, y0 + h) are
\* inside and a point one pixel beyond any edge is outside.
C21_InclusiveRegion ==
  (call.op = "inRegion") =>
     LET b == call.b
     IN  /\ call.out <=> (b.x <= call.x /\ call.x <= b.x + b.w /\
                          b.y <= call.y /\ call.y <= b.y + b.h)
         /\ (call.x = b.x /\ call.y = b.y) => call.out
         /\ (call.x = b.x + b.w /\ call.y = b.y + b.h) => call.out
         /\ (call.x \in {b.x - 1, b.x + b.w + 1}) => ~call.out
         /\ (call.y \in {b.y - 1, b.y + b.h + 1}) => ~call.out

C21_Witness ==
  /\ call.op = "inRegion" /\ call.b = rLocn
  /\ call.x = rLocn.x + rLocn.w /\ call.y = rLocn.y + rLocn.h /\ call.out

\* C22: the screen is always one of PRIMARY (0), DUAL_TIME (1), LOCATION (2);
\* when setup() returns it is the configured first screen; and only the touch
\* dispatch changes it: feedGPS, syncCheck, updateDisplay, the pulse handler
\* and the clock leave it alone.
C22_ScreenState ==
  /\ (variant = "full") => (screenID \in FirstScreens)
  /\ [](screenID \in {0, 1, 2})
  /\ [][ (screenID' # screenID) => (ev'.op = "touch" /\ pc = "touch") ]_vars

C22_Witness ==
  /\ ev.op = "touch" /\ ev.from = 0 /\ screenID = 2 /\ lastSync # 0
  /\ ev.at = [x |-> 250, y |-> 200]

\* C23 (as claimed): newScreen() resets oldT and oldLt to 0, and the first
\* refresh after it, on a screen that shows the time, draws the time digits
\* and the date, whatever the date and time.
C23_FullRedraw ==
  [][ (variant = "full" /\ screenID \in {0, 1} /\ lastSync # 0 /\
       oldT = 0 /\ oldLt = 0 /\ ev'.op = "updateDisplay") =>
        (ev'.times # {} /\ ev'.dates # {}) ]_vars

\* C24: after a touch is handled no touch is read until 300 ms have passed:
\* whenever checkForTouch() reads a touch, either none was dispatched before
\* or at least 300 ms have passed since the previous one.
C24_Debounce ==
  (ev.op = "touch") => (ev.quiet = -1 \/ ev.quiet >= 300)

C24_Witness ==
  /\ ev.op = "touch" /\ ev.quiet = 300 /\ variant = "single" /\ sinceTouch = 300

\* C25: a call of updateDisplay that finds the clock at the instant displayed
\* last draws nothing and leaves oldT, oldLt, lt (GPS_CLOCK_single: t, lt)
\* and the screen as they are; a call that finds it changed ends with
\* oldT = t and oldLt = lt (GPS_CLOCK_single: t = the clock value read).
C25_OncePerSecond ==
  [][ /\ (ev'.op = "updateDisplay" /\ variant \in {"full", "plus"}) =>
           IF sysTime = oldT
           THEN /\ ev'.times = {} /\ ev'.dates = {} /\ ev'.painted = "none"
                /\ UNCHANGED <<oldT, oldLt, lt, t, screen>>
           ELSE oldT' = t' /\ oldLt' = lt' /\ t' = sysTime
      /\ (ev'.op = "updateDisplay" /\ variant = "single") =>
           IF sysTime = t
           THEN /\ ev'.times = {} /\ ev'.dates = {} /\ ev'.painted = "none"
                /\ UNCHANGED <<t, lt, screen>>
           ELSE t' = sysTime ]_vars

C25_Witness ==
  /\ variant = "full" /\ screenID = 0 /\ ev.op = "updateDisplay"
  /\ ev.times = {} /\ oldT = sysTime /\ oldT # 0 /\ oldLt = lt /\ lastSync # 0

\* the coordinates lie in the accepted range
InRange(lat, lon) ==
  /\ Deg(-90) <= lat /\ lat <= Deg(90)
  /\ Deg(-180) <= lon /\ lon <= Deg(180)

\* C26: getGridSquare returns the empty string and writes nothing past gs[0]
\* whenever lon + 180 is outside [0, 360], or lat + 90 is outside [0, 180], or
\* the length exceeds 10.
C26_RejectsOutOfRange ==
  (call.op = "getGridSquare" /\
   (~InRange(call.lat, call.lon) \/ call.len > 10)) =>
     /\ cstr(call.out) = << >>
     /\ \A i \in 2..12 : call.out[i] = call.gs[i]

C26_Witness ==
  /\ call.op = "getGridSquare" /\ call.lat = Deg(91) /\ call.lon = 0
  /\ call.len = 6 /\ call.gs[1] = 90 /\ call.out[1] = 0 /\ call.out[2] = 90

\* C27: for in-range coordinates and a length in 0..10 the string returned
\* has exactly `length` characters and is the prefix of that length of the
\* ten-character locator; length 0 yields the empty string.
C27_LengthPrefix ==
  (call.op = "getGridSquare" /\ InRange(call.lat, call.lon) /\
   call.len \in 0..10) =>
     /\ Len(cstr(call.out)) = call.len
     /\ cstr(call.out) =
          SubSeq(cstr(getGridSquare(call.gs, call.lat, call.lon, 10)), 1, call.len)
     /\ Len(cstr(getGridSquare(call.gs, call.lat, call.lon, 10))) = 10
     /\ (call.len = 0) => cstr(call.out) = << >>

C27_Witness ==
  /\ call.op = "getGridSquare" /\ call.lat = 2620805 /\ call.lon = -7044475
  /\ call.len = 6 /\ call.gs[1] = 90
  /\ cstr(call.out) = <<67, 78, 56, 53, 117, 109>>

\* C28: for in-range coordinates the two leading characters are
\* 'A' + floor((lon+180)/20) and 'A' + floor((lat+90)/10) and the next two the
\* digits floor(((lon+180) mod 20)/2) and floor((lat+90) mod 10).
C28_LeadingPairs ==
  (call.op = "getGridSquare" /\ InRange(call.lat, call.lon) /\ call.len = 10) =>
     LET lo == call.lon + 180 * 57600
         la == call.lat + 90 * 57600
     IN  /\ call.out[1] = 65 + (lo \div (20 * 57600))
         /\ call.out[2] = 65 + (la \div (10 * 57600))
         /\ call.out[3] = 48 + ((lo % (20 * 57600)) \div (2 * 57600))
         /\ call.out[4] = 48 + ((la % (10 * 57600)) \div 57600)

C28_Witness ==
  /\ call.op = "getGridSquare" /\ call.lat = -1952635 /\ call.lon = 8709125
  /\ call.len = 10 /\ SubSeq(call.out, 1, 4) = <<81, 70, 53, 54>>

\* C29 (as claimed): for every accepted input, the limits of the range
\* included, every character lies in the range of its class: pair 1 in
\* 'A'..'R', pair 2 in '0'..'9', pair 3 in 'a'..'x', pair 4 in '0'..'9',
\* pair 5 in 'A'..'X'.
C29_ClassRanges ==
  (call.op = "getGridSquare" /\ InRange(call.lat, call.lon) /\ call.len = 10) =>
     /\ \A i \in {1, 2} : call.out[i] \in 65..82
     /\ \A i \in {3, 4, 7, 8} : call.out[i] \in 48..57
     /\ \A i \in {5, 6} : call.out[i] \in 97..120
     /\ \A i \in {9, 10} : call.out[i] \in 65..88

\* C30: the clock changes only in a step of syncCheck whose syncWithGPS()
\* accepted the decoded time, or by seconds the hardware counts (between
\* the routines of loop(), or while updateDisplay runs); lastSync changes
\* only in an accepting step of syncCheck, to the clock just set.  Touch
\* dispatch, the pulse handler, feedGPS and the zone conversion change
\* neither.
C30_SingleWriter ==
  [][ /\ (sysTime' # sysTime) =>
           \/ ev'.op \in {"syncCheck", "syncGate", "syncCheck11"} /\ ev'.accepted
           \/ /\ ev'.op \in {"none", "updateDisplay"}
              /\ envCount' = envCount + 1
              /\ (sysTime' - sysTime) \in TickSteps
      /\ (lastSync' # lastSync) =>
           /\ ev'.op \in {"syncCheck", "syncGate"} /\ ev'.accepted
           /\ lastSync' = sysTime' ]_vars

\* a touch is dispatched on a clock that was synchronized and has since been
\* counted on by the hardware: both values are as the sync and the ticks
\* left them
C30_Witness ==
  /\ variant = "full" /\ ev.op = "touch" /\ lastSync # 0
  /\ sysTime - lastSync \in TickSteps

\* C31 (as claimed): the clock never decreases, whatever ticks and passes of
\* syncCheck (accepting or refusing) follow each other.  Stated for a decoder
\* that holds a decoded date, which is the case the claim must at least cover.
C31_Monotonic ==
  [][(gps'.day # 0) => (sysTime' >= sysTime)]_vars

\* a dispatched touch that has an effect: on the dual or location screen
\* any touch, else one inside a region of the sketch
Effective ==
  /\ ev.op = "touch"
  /\ IF variant = "full"
     THEN ev.from # 0 \/ \E b \in {rTime, rLocn, rPM, rTZ} : inRegion(b, ev.at.x, ev.at.y)
     ELSE \E b \in {rPM1, rTime, rTZ1} : inRegion(b, ev.at.x, ev.at.y)

\* C39 (as claimed): one physical touch is dispatched once: whenever
\* checkForTouch() changes the screen or toggles a flag for a touch, no
\* earlier poll has done so for the same press.
C39_OneDispatchPerPress ==
  Effective => (ev.polls = 1)

\* C32 (as claimed): behind a receiver that raises the pulse at the start of
\* each UTC second and sends the sentence of a second after its pulse, every
\* pulse-gated pass of syncCheck that sets the clock sets it to the UTC second
\* that began with the pulse that raised the flag.
C32_SyncSetsPulseSecond ==
  [][ (ev'.op = "syncCheck" /\ ev'.accepted /\ usingPPS) => (sysTime' = air.raised) ]_vars

\* C33 (as claimed): on the dual screen of a synchronized clock the local
\* line shows its hour in the format LOCAL_FORMAT_12HR selects and the UTC
\* line in the format UTC_FORMAT_12HR selects, whatever use12hrFormat holds.
C33_DualFormats ==
  (ev.op = "updateDisplay" /\ ev.hours # <<>> /\ lastSync # 0) =>
     /\ ev.hours[1] = (IF LOCAL_FORMAT_12HR /\ hour(lt) = 0 THEN 12
                       ELSE IF LOCAL_FORMAT_12HR /\ hour(lt) > 12 THEN hour(lt) - 12
                       ELSE hour(lt))
     /\ ev.hours[2] = (IF UTC_FORMAT_12HR /\ hour(t) = 0 THEN 12
                       ELSE IF UTC_FORMAT_12HR /\ hour(t) > 12 THEN hour(t) - 12
                       ELSE hour(t))

\* C34 (as claimed): on the single-time screen of a synchronized clock, after
\* every refresh that drew the time, the date line shows the calendar date of
\* the instant whose time is shown: of lt in local mode, of t in UTC mode.
C34_DateOfShownTime ==
  (variant = "full" /\ screenID = 0 /\ lastSync # 0
     /\ ev.op = "updateDisplay" /\ ev.times # {}) =>
        screen.date = (IF useLocalTime THEN lt ELSE t) \div SECS_PER_DAY

\* C35 (as claimed): a touch runs at most one handler.  On screen 0 of
\* part_003 it is the handler of the first of rTime, rLocn, rPM, rTZ that
\* contains the point, none when no region does; in GPS_CLOCK_single the
\* 12/24 toggle and the zone toggle never both run.
C35_OneActionPerTouch ==
  (ev.op = "touch") =>
     /\ Cardinality(ev.acts) <= 1
     /\ (variant = "full" /\ ev.from = 0) =>
          LET in(b) == /\ b.x <= ev.at.x /\ ev.at.x <= b.x + b.w
                       /\ b.y <= ev.at.y /\ ev.at.y <= b.y + b.h
          IN  /\ "touchedTime" \in ev.acts <=> in(rTime)
              /\ "touchedLocation" \in ev.acts <=> (in(rLocn) /\ ~in(rTime))
              /\ "touchedPM" \in ev.acts <=> (in(rPM) /\ ~in(rLocn) /\ ~in(rTime))
              /\ "touchedTZ" \in ev.acts <=>
                    (in(rTZ) /\ ~in(rPM) /\ ~in(rLocn) /\ ~in(rTime))

\* C36 (as claimed): two consecutive touches of the zone region leave
\* useLocalTime and use12hrFormat as they were before the first, and so do
\* two consecutive touches of the AM/PM region.
C36_TogglesAreInvolutions ==
  (call.op = "touches" /\ ev.op = "touch" /\ Len(call.acts) = 2
     /\ call.acts[1] = call.acts[2]
     /\ call.acts[1] \in {{"touchedTZ"}, {"touchedPM"}, {"checkTouchTZ"}, {"checkTouchPM"}}) =>
        <<useLocalTime, use12hrFormat>> = call.flags

\* C37: whenever lastSync is set it is not after the clock, so the sync age
\* now() - lastSync that showClockStatus() and the interval gate of syncCheck()
\* compute is never negative.
C37_SyncAgeNotNegative ==
  (lastSync # 0) => (lastSync <= sysTime)

\* the interval gate let a resync be tried on a sync age that had reached
\* SYNC_INTERVAL, and the decode was refused: lastSync stays behind the clock
C37_Witness ==
  /\ variant = "plus" /\ ev.op = "syncGate" /\ ev.tried /\ ~ev.accepted
  /\ lastSync # 0 /\ sysTime - lastSync >= SYNC_INTERVAL

\* C38 (as claimed): a pass of syncCheck sets the clock only from a decoder
\* whose date has been decoded: day and month are those of a calendar date,
\* not the 0/0 the decoder reads before any date was committed.
C38_DateDecoded ==
  (ev.op \in SyncOps /\ ev.accepted) => (gps.day \in 1..31 /\ gps.month \in 1..12)

=============================================================================
